---- MODULE Spec2Model ----
(***************************************************************************)
(* Reminder scheduling and notification delivery of the MR!JK! assistant:  *)
(* the NotificationServiceImpl singleton (services/notifications.ts), the  *)
(* reminder part of the useAppState hook (hooks/useAppState.ts) and the    *)
(* two localStorage keys it uses (services/storage.ts).                    *)
(*                                                                         *)
(* Time is a count of instants; a local calendar day has SlotsPerDay of    *)
(* them.  `now` is the device's local wall clock, tz the offset of local   *)
(* time ahead of UTC, so the UTC instant is now - tz.  There is no DST.    *)
(* In Spec and SpecService every handler runs to completion as one step    *)
(* (the JavaScript event loop with no other task scheduled between its     *)
(* awaits) and reads one clock value.  SpecAsync follows one process with  *)
(* its handlers suspended at the awaits that end a task of the event loop. *)
(* SpecHandles and SpecIds apply the id generators of the service to       *)
(* reminder ids of any content.                                            *)
(***************************************************************************)
EXTENDS Integers, Sequences, FiniteSets, TLC

VARIABLES
    now,                  \* local wall-clock instant
    tz,                   \* timezone offset of the device, in instants
    native,               \* typeof window.Capacitor !== 'undefined'
    permission,           \* what the platform answers to a permission check/request
    scheduleFails,        \* LocalNotifications.schedule() rejects on this device
    running,              \* the application process is alive
    mounted,              \* the useAppState hook is mounted (its effect ran, its cleanup not)
    stored,               \* localStorage[REMINDERS]
    lastDailyReset,       \* localStorage[LAST_DAILY_RESET]: {} (null) or {date}
    reminders,            \* useState<Reminder[]> of the hook
    created,              \* number of ids crypto.randomUUID() has handed out
    hasPermission,        \* NotificationServiceImpl.hasPermission
    pendingNotifications, \* NotificationServiceImpl.pendingNotifications
    notificationCounter,  \* NotificationServiceImpl.notificationCounter
    platform,             \* alerts the native scheduler holds (survive the process)
    timers,               \* window.setTimeout timers of scheduleWebNotification
    rearm,                \* the 1000 ms timers that re-arm a fired daily reminder
    dailyResetInterval,   \* the midnight timer: {} or {instant it fires at}
    tasks,                \* the async calls suspended at an await, with what they hold
    lastOp,               \* history: the step just taken and what it returned
    lastPassDay           \* history: {} or {local day of the latest rollover pass}

vars == << now, tz, native, permission, scheduleFails, running, mounted, stored, lastDailyReset, reminders,
           created, hasPermission, pendingNotifications, notificationCounter,
           platform, timers, rearm, dailyResetInterval, tasks, lastOp, lastPassDay >>

----------------------------------------------------------------------------
(* Bounds of the model *)

SlotsPerDay == 2
MaxTime == 4
SvcMaxTime == 2
MaxReminders == 2
MaxRandom == 1
MaxCounter == 3
MaxIdLen == 5
AsyncMaxTime == 2
MaxTasks == 2
MaxTimers == 3

TzOffsets == {-1, 0, 1}

\* what Math.floor(Math.random() * 1000) gives: in the calls made through the
\* service interface, and in the runs of the whole application (where the event
\* handles differ through the counter alone)
RandomParts == 0..MaxRandom
AppRandomParts == {0}

\* the ids crypto.randomUUID() hands out, in order, as strings of char codes
IdSeq == << <<97>>, <<98>>, <<99>>, <<100>> >>
Ids == {IdSeq[i] : i \in 1..MaxReminders}
NoId == << >>

SvcTimes == 0..SvcMaxTime
TimesOfDay == 0..(SlotsPerDay - 1)

----------------------------------------------------------------------------
(* Dates *)

\* Date#getFullYear/getMonth/getDate: the local calendar day of an instant
LocalDay(t) == t \div SlotsPerDay

\* Date#getHours..getMilliseconds: the local time of day of an instant
TimeOfDay(t) == t % SlotsPerDay

\* new Date().toISOString().split('T')[0]: the calendar day in UTC
UTCDate(t) == (t - tz) \div SlotsPerDay

\* the re-stamp done as an advance by one day instead of a stamp with today
SetFullYear_AdvanceOneDay(d, t) == d + SlotsPerDay

\* d.setFullYear(now.getFullYear(), now.getMonth(), now.getDate())
SetFullYear(d, t) == LocalDay(t) * SlotsPerDay + TimeOfDay(d)

\* the date left as it is
AddDay_SameDay(d) == d

\* d.setDate(d.getDate() + 1)
AddDay(d) == d + SlotsPerDay

\* tomorrow.setDate(+1); tomorrow.setHours(0, 0, 0, 0)
NextMidnight(t) == (LocalDay(t) + 1) * SlotsPerDay

----------------------------------------------------------------------------
(* Notification ids *)

\* the loop of generateDailyNotificationId on the 32-bit hash, kept as two
\* 16-bit halves <<high, low>>: hash = ((hash << 5) - hash + char) | 0
RECURSIVE HashHalves(_, _, _)
HashHalves(reminderId, i, h) ==
    IF i > Len(reminderId) THEN h
    ELSE LET lo == h[2] * 31 + reminderId[i]
             hi == h[1] * 31 + (lo \div 65536)
         IN HashHalves(reminderId, i + 1, << hi % 65536, lo % 65536 >>)

\* Math.abs(hash) % 100000 of the signed 32-bit hash
generateDailyNotificationId(reminderId) ==
    LET h == HashHalves(reminderId, 1, << 0, 0 >>)
    IN IF h[1] < 32768 THEN (h[1] * 65536 + h[2]) % 100000
       ELSE IF h[1] = 32768 /\ h[2] = 0 THEN 83648
       ELSE ((65535 - h[1]) * 65536 + (65536 - h[2])) % 100000

\* the event handle without its offset of 100000
generateNotificationId_NoOffset(counter, rnd) == (counter * 1000) + rnd

\* 100000 + (this.notificationCounter++ * 1000) + Math.floor(Math.random() * 1000)
generateNotificationId(counter, rnd) == 100000 + (counter * 1000) + rnd

----------------------------------------------------------------------------
(* The state the handlers work on, as one record *)

State ==
    [ stored |-> stored, lastDailyReset |-> lastDailyReset, reminders |-> reminders,
      hasPermission |-> hasPermission, pendingNotifications |-> pendingNotifications,
      notificationCounter |-> notificationCounter, platform |-> platform,
      timers |-> timers ]

Install(st) ==
    /\ stored' = st.stored
    /\ lastDailyReset' = st.lastDailyReset
    /\ reminders' = st.reminders
    /\ hasPermission' = st.hasPermission
    /\ pendingNotifications' = st.pendingNotifications
    /\ notificationCounter' = st.notificationCounter
    /\ platform' = st.platform
    /\ timers' = st.timers

Op(name, id, result, at, rolled, cancelled) ==
    [ name |-> name, id |-> id, result |-> result, at |-> at, rolled |-> rolled,
      cancelled |-> cancelled, datetime |-> 0, armed |-> FALSE ]

\* a call of the service with the reminder it was given and what it returned
OpOn(name, reminder, res) ==
    [ Op(name, reminder.id, res.result, res.at, FALSE, {}) EXCEPT
        !.datetime = reminder.datetime, !.armed = res.armed ]

\* how the history names the delivery of a notification to the user
DeliveryOf(type) == IF type = "event" THEN "eventNotification" ELSE "dailyNotification"

\* local days since the previous rollover pass (0 when there was none)
DaysSincePass(t) == IF lastPassDay = {} THEN 0
                    ELSE LocalDay(t) - (CHOOSE d \in lastPassDay : TRUE)

----------------------------------------------------------------------------
(* NotificationServiceImpl *)

\* requestPermission: the platform's answer is kept in hasPermission
requestPermission(st) == [st EXCEPT !.hasPermission = (permission = "granted")]

\* cancelReminder(id): only what pendingNotifications holds for id is cancelled
cancelReminder(st, id) ==
    LET has == id \in DOMAIN st.pendingNotifications
        pending == st.pendingNotifications[id]
    IN [st EXCEPT
          !.platform = IF native /\ has /\ pending.kind = "capacitor"
                       THEN {a \in @ : a.id # pending.notificationId}
                       ELSE @,
          !.timers = IF has /\ pending.kind = "web"
                     THEN {x \in @ : x.timeoutId # pending.timeoutId}
                     ELSE @,
          !.pendingNotifications = [i \in (DOMAIN @) \ {id} |-> @[i]]]

\* window.setTimeout returns an integer > 0 that no active timer has
NewTimeoutId(st) ==
    CHOOSE n \in 1..(Cardinality(st.timers) + 1) :
        /\ \A x \in st.timers : x.timeoutId # n
        /\ \A m \in 1..(n - 1) : \E x \in st.timers : x.timeoutId = m

\* scheduleWebNotification(reminder, delay): the timer fires at now + delay
scheduleWebNotification(st, reminder, at) ==
    LET timeoutId == NewTimeoutId(st)
        timer == [ timeoutId |-> timeoutId, id |-> reminder.id, type |-> reminder.type,
                   datetime |-> reminder.datetime, at |-> at ]
    IN [ st |-> [st EXCEPT
                   !.timers = @ \cup {timer},
                   !.pendingNotifications =
                       (reminder.id :> [kind |-> "web", timeoutId |-> timeoutId]) @@ @],
         result |-> timeoutId, armed |-> TRUE, at |-> at ]

\* the comparison done strictly: a reminder due exactly now counts as ahead
HasPassed_Strict(delay) == delay < 0

\* delay <= 0: the reminder's time has passed
HasPassed(delay) == delay <= 0

\* scheduleReminder(reminder) up to its native arm step, at clock value t:
\* the early return for an event whose time has passed, cancelReminder, and
\* the handle; rnd is what Math.random() gives
scheduleReminderPrepare(st, reminder, t, rnd) ==
    LET triggerTime == reminder.datetime
        delay == triggerTime - t
        isDaily == reminder.type = "daily"
        actualTriggerTime == IF isDaily /\ HasPassed(delay) THEN AddDay(triggerTime)
                             ELSE triggerTime
        st1 == cancelReminder(st, reminder.id)
        notificationId == IF isDaily THEN generateDailyNotificationId(reminder.id)
                          ELSE generateNotificationId(st1.notificationCounter, rnd)
        st2 == [st1 EXCEPT !.notificationCounter = IF isDaily THEN @ ELSE @ + 1]
    IN IF ~isDaily /\ HasPassed(delay)
       THEN [ st |-> st, returned |-> TRUE,
              call |-> [ reminder |-> reminder, notificationId |-> 0, at |-> 0 ] ]
       ELSE [ st |-> st2, returned |-> FALSE,
              call |-> [ reminder |-> reminder, notificationId |-> notificationId,
                         at |-> actualTriggerTime ] ]

\* the rest of scheduleReminder: the permission check and LocalNotifications
\* .schedule on native (a web timer when it rejects), a web timer otherwise
scheduleReminderArm(st, call) ==
    LET st3 == [st EXCEPT !.hasPermission = (permission = "granted")]
        alert == [ id |-> call.notificationId, reminderId |-> call.reminder.id,
                   type |-> call.reminder.type, at |-> call.at ]
    IN IF native
       THEN IF ~st3.hasPermission
            THEN [ st |-> st3, result |-> 0, armed |-> FALSE, at |-> 0 ]
            ELSE IF scheduleFails
            THEN scheduleWebNotification(st3, call.reminder, call.at)
            ELSE [ st |-> [st3 EXCEPT
                             !.platform = {a \in @ : a.id # call.notificationId}
                                          \cup {alert},
                             !.pendingNotifications =
                                 (call.reminder.id :>
                                     [kind |-> "capacitor",
                                      notificationId |-> call.notificationId])
                                 @@ @],
                   result |-> call.notificationId, armed |-> TRUE, at |-> call.at ]
       ELSE scheduleWebNotification(st, call.reminder, call.at)

\* scheduleReminder(reminder) run to its return with nothing in between
scheduleReminder(st, reminder, t, rnd) ==
    LET prepared == scheduleReminderPrepare(st, reminder, t, rnd)
    IN IF prepared.returned
       THEN [ st |-> prepared.st, result |-> 0, armed |-> FALSE, at |-> 0 ]
       ELSE scheduleReminderArm(prepared.st, prepared.call)

\* rescheduleDaily without the stamp on today's date
rescheduleDaily_KeepDate(st, reminder, t, rnd) ==
    IF reminder.type # "daily"
    THEN [ st |-> st, result |-> 0, armed |-> FALSE, at |-> 0 ]
    ELSE scheduleReminder(st, [reminder EXCEPT !.completed = FALSE], t, rnd)

\* the reminder rescheduleDaily hands to scheduleReminder
updatedReminder(reminder, t) ==
    LET today == SetFullYear(reminder.datetime, t)
        reminderTime == IF today <= t THEN AddDay(today) ELSE today
    IN [reminder EXCEPT !.datetime = reminderTime, !.completed = FALSE]

\* rescheduleDaily(reminder)
rescheduleDaily(st, reminder, t, rnd) ==
    IF reminder.type # "daily"
    THEN [ st |-> st, result |-> 0, armed |-> FALSE, at |-> 0 ]
    ELSE scheduleReminder(st, updatedReminder(reminder, t), t, rnd)

\* cancelAll()
cancelAll(st) ==
    [st EXCEPT
       !.platform = IF native THEN {} ELSE @,
       !.timers = {x \in @ : \A i \in DOMAIN st.pendingNotifications :
                       ~(st.pendingNotifications[i].kind = "web"
                         /\ st.pendingNotifications[i].timeoutId = x.timeoutId)},
       !.pendingNotifications = << >>]

----------------------------------------------------------------------------
(* useAppState *)

\* the purge without its test of the type: dailies of the past go as well
IsExpired_AnyType(r, t) == r.datetime < t

\* the purge with its comparison off by one: an event due exactly now is dropped
IsExpired_AtOrBefore(r, t) == r.type = "event" /\ r.datetime <= t

\* r.type === 'event' && new Date(r.datetime) < now
IsExpired(r, t) == r.type = "event" /\ r.datetime < t

\* notificationService.cancelReminder(r.id) for each reminder a filter drops
RECURSIVE CancelEach(_, _)
CancelEach(st, list) ==
    IF list = << >> THEN st
    ELSE CancelEach(cancelReminder(st, Head(list).id), Tail(list))

\* for (const reminder of list) { daily ? rescheduleDaily : scheduleReminder }
RECURSIVE RearmEach(_, _, _, _)
RearmEach(st, list, t, rnd) ==
    IF list = << >> THEN st
    ELSE LET r == Head(list)
             next == IF r.type = "daily" THEN rescheduleDaily(st, r, t, rnd[r.id])
                     ELSE scheduleReminder(st, r, t, rnd[r.id])
         IN RearmEach(next.st, Tail(list), t, rnd)

\* whether checkDailyReset takes its branch: lastReset !== today
NeedsReset(st, t) == st.lastDailyReset # {UTCDate(t)}

\* checkDailyReset(currentReminders) up to its loop of rescheduleDaily calls:
\* the state it leaves and the reminders the loop is to go through
checkDailyResetStore(st, currentReminders, t) ==
    LET today == UTCDate(t)
        updatedReminders ==
            [i \in 1..Len(currentReminders) |->
                LET r == currentReminders[i]
                IN IF r.type = "daily"
                   THEN [r EXCEPT !.completed = FALSE,
                                  !.datetime = SetFullYear(r.datetime, t)]
                   ELSE r]
        filteredReminders == SelectSeq(updatedReminders, LAMBDA r : ~IsExpired(r, t))
        st1 == CancelEach(st, SelectSeq(updatedReminders, LAMBDA r : IsExpired(r, t)))
        st2 == [st1 EXCEPT !.reminders = filteredReminders,
                           !.stored = filteredReminders,
                           !.lastDailyReset = {today}]
    IN IF NeedsReset(st, t)
       THEN [ st |-> st2,
              todo |-> SelectSeq(filteredReminders,
                                 LAMBDA r : r.type = "daily" /\ ~r.completed) ]
       ELSE [ st |-> st, todo |-> << >> ]

\* checkDailyReset(currentReminders)
checkDailyReset(st, currentReminders, t, rnd) ==
    LET reset == checkDailyResetStore(st, currentReminders, t)
    IN RearmEach(reset.st, reset.todo, t, rnd)

\* loadState() from the answer of requestPermission to its last loop, on the
\* reminders it read before: the state it leaves and the reminders its loops
\* (the one of checkDailyReset, then its own) are to go through
loadStateStore(st, savedReminders, t) ==
    LET st0 == requestPermission(st)
        cleanedReminders == SelectSeq(savedReminders, LAMBDA r : ~IsExpired(r, t))
        st1 == CancelEach(st0, SelectSeq(savedReminders, LAMBDA r : IsExpired(r, t)))
        st2 == [st1 EXCEPT
                  !.reminders = cleanedReminders,
                  !.stored = IF Len(cleanedReminders) # Len(savedReminders)
                             THEN cleanedReminders ELSE @]
        reset == checkDailyResetStore(st2, cleanedReminders, t)
    IN [ st |-> reset.st,
         todo |-> reset.todo \o SelectSeq(cleanedReminders, LAMBDA r : ~r.completed) ]

\* loadState(): the reminder part, run to its end with nothing in between
loadState(st, t, rnd) ==
    LET loaded == loadStateStore(st, st.stored, t)
    IN RearmEach(loaded.st, loaded.todo, t, rnd)

\* the ids the filters of a pass hand to cancelReminder
DroppedIds(list, t) == {list[i].id : i \in {j \in 1..Len(list) : IsExpired(list[j], t)}}

----------------------------------------------------------------------------
(* Steps of the application *)

Init ==
    /\ now = 0
    /\ tz \in TzOffsets
    /\ native \in BOOLEAN
    /\ permission \in {"granted", "denied"}
    /\ scheduleFails \in IF native THEN BOOLEAN ELSE {FALSE}
    /\ running = FALSE
    /\ mounted = FALSE
    /\ stored = << >>
    /\ lastDailyReset = {}
    /\ reminders = << >>
    /\ created = 0
    /\ hasPermission = FALSE
    /\ pendingNotifications = << >>
    /\ notificationCounter = 1
    /\ platform = {}
    /\ timers = {}
    /\ rearm = {}
    /\ dailyResetInterval = {}
    /\ tasks = << >>
    /\ lastOp = Op("init", NoId, 0, 0, FALSE, {})
    /\ lastPassDay = {}

\* the process starts: the effect of useAppState runs loadState and checkMidnight
Launch ==
    /\ ~running
    /\ \E rnd \in [Ids -> AppRandomParts] :
          /\ Install(loadState(State, now, rnd))
          /\ lastOp' = Op("loadState", NoId, DaysSincePass(now), 0, NeedsReset(State, now),
                          DroppedIds(stored, now))
    /\ running' = TRUE
    /\ mounted' = TRUE
    /\ dailyResetInterval' = {NextMidnight(now)}
    /\ lastPassDay' = {LocalDay(now)}
    /\ UNCHANGED << tasks, now, tz, native, permission, scheduleFails, created, rearm >>

\* the process ends: everything it held in memory is gone
Close ==
    /\ running
    /\ running' = FALSE
    /\ mounted' = FALSE
    /\ reminders' = << >>
    /\ hasPermission' = FALSE
    /\ pendingNotifications' = << >>
    /\ notificationCounter' = 1
    /\ timers' = {}
    /\ rearm' = {}
    /\ dailyResetInterval' = {}
    /\ tasks' = << >>
    /\ lastOp' = Op("close", NoId, 0, 0, FALSE, {})
    /\ UNCHANGED << lastPassDay, now, tz, native, permission, scheduleFails, stored, lastDailyReset, created, platform >>

\* addReminder(reminder), called by AddReminderModal.handleSubmit
AddReminder ==
    /\ running
    /\ created < MaxReminders
    /\ \E type \in {"daily", "event"}, date \in 0..(MaxTime \div SlotsPerDay),
          time \in TimesOfDay, rnd \in AppRandomParts :
          LET reminderDate == IF type = "daily" THEN UTCDate(now) ELSE date
              newReminder == [ id |-> IdSeq[created + 1], type |-> type,
                               datetime |-> reminderDate * SlotsPerDay + time,
                               completed |-> FALSE ]
              updatedReminders == Append(reminders, newReminder)
              st1 == [State EXCEPT !.reminders = updatedReminders,
                                   !.stored = updatedReminders]
              res == scheduleReminder(st1, newReminder, now, rnd)
          IN /\ Install(res.st)
             /\ lastOp' = Op("addReminder", newReminder.id, res.result, res.at, FALSE, {})
    /\ created' = created + 1
    /\ UNCHANGED << mounted, tasks, lastPassDay, now, tz, native, permission, scheduleFails, running, rearm, dailyResetInterval >>

\* toggleReminder(id), called by RemindersList
ToggleReminder ==
    /\ running
    /\ \E i \in 1..Len(reminders) :
          LET reminder == reminders[i]
              updatedReminders == [reminders EXCEPT ![i].completed = ~@]
              st1 == [State EXCEPT !.reminders = updatedReminders,
                                   !.stored = updatedReminders]
              st2 == IF ~reminder.completed THEN cancelReminder(st1, reminder.id)
                     ELSE IF reminder.type = "daily"
                          THEN rescheduleDaily(st1, [reminder EXCEPT !.completed = FALSE],
                                               now, 0).st
                          ELSE st1
          IN /\ Install(st2)
             /\ lastOp' = Op("toggleReminder", reminder.id, 0, 0, FALSE, {})
    /\ UNCHANGED << mounted, tasks, lastPassDay, now, tz, native, permission, scheduleFails, running, created, rearm,
                    dailyResetInterval >>

\* deleteReminder(id), called by RemindersList
DeleteReminder ==
    /\ running
    /\ \E i \in 1..Len(reminders) :
          LET reminder == reminders[i]
              updatedReminders == SelectSeq(reminders, LAMBDA r : r.id # reminder.id)
              st1 == [State EXCEPT !.reminders = updatedReminders,
                                   !.stored = updatedReminders]
          IN IF reminder.type = "daily"
             THEN /\ Install(State)
                  /\ lastOp' = Op("deleteReminder", reminder.id, 0, 0, FALSE, {})
             ELSE /\ Install(cancelReminder(st1, reminder.id))
                  /\ lastOp' = Op("deleteReminder", reminder.id, 0, 0, FALSE, {})
    /\ UNCHANGED << mounted, tasks, lastPassDay, now, tz, native, permission, scheduleFails, running, created, rearm,
                    dailyResetInterval >>

\* the callback of checkMidnight's timer: the rollover pass on what storage
\* holds, then checkMidnight() again
MidnightTimer ==
    /\ running
    /\ \E at \in dailyResetInterval : at <= now
    /\ \E rnd \in [Ids -> AppRandomParts] :
          LET currentReminders == stored
          IN /\ Install(checkDailyReset(State, currentReminders, now, rnd))
             /\ lastOp' = Op("checkMidnight", NoId, DaysSincePass(now), 0, NeedsReset(State, now),
                             IF NeedsReset(State, now) THEN DroppedIds(stored, now)
                             ELSE {})
    /\ dailyResetInterval' = {NextMidnight(now)}
    /\ lastPassDay' = {LocalDay(now)}
    /\ UNCHANGED << mounted, tasks, now, tz, native, permission, scheduleFails, running, created, rearm >>

\* the callback of a scheduleWebNotification timer
FireWebTimer ==
    /\ running
    /\ \E x \in timers :
          /\ x.at <= now
          /\ timers' = timers \ {x}
          /\ pendingNotifications' =
                [i \in (DOMAIN pendingNotifications) \ {x.id} |-> pendingNotifications[i]]
          /\ rearm' = IF x.type = "daily"
                      THEN rearm \cup {[ id |-> x.id, type |-> x.type,
                                         datetime |-> AddDay(x.datetime),
                                         completed |-> FALSE ]}
                      ELSE rearm
          /\ lastOp' = Op(IF hasPermission THEN DeliveryOf(x.type) ELSE "timer", x.id,
                          0, 0, FALSE, {})
    /\ UNCHANGED << mounted, tasks, lastPassDay, now, tz, native, permission, scheduleFails, running, stored, lastDailyReset,
                    reminders, created, hasPermission, notificationCounter, platform,
                    dailyResetInterval >>

\* setTimeout(() => this.scheduleReminder(newReminder), 1000)
RearmDaily ==
    /\ running
    /\ \E newReminder \in rearm :
          LET res == scheduleReminder(State, newReminder, now, 0)
          IN /\ Install(res.st)
             /\ rearm' = rearm \ {newReminder}
             /\ lastOp' = Op("rearm", newReminder.id, res.result, res.at, FALSE, {})
    /\ UNCHANGED << mounted, tasks, lastPassDay, now, tz, native, permission, scheduleFails, running, created, dailyResetInterval >>

\* the native scheduler delivers an alert at its instant, process alive or not
DeliverNative ==
    /\ \E a \in platform :
          /\ a.at <= now
          /\ platform' = platform \ {a}
          /\ lastOp' = Op(DeliveryOf(a.type), a.reminderId, 0, 0, FALSE, {})
    /\ UNCHANGED << mounted, tasks, lastPassDay, now, tz, native, permission, scheduleFails, running, stored, lastDailyReset,
                    reminders, created, hasPermission, pendingNotifications,
                    notificationCounter, timers, rearm, dailyResetInterval >>

\* nothing that is due is left waiting when the clock moves on
NothingDue ==
    /\ \A a \in platform : a.at > now
    /\ \A x \in timers : x.at > now
    /\ rearm = {}
    /\ \A at \in dailyResetInterval : at > now

Tick ==
    /\ now < MaxTime
    /\ NothingDue
    /\ now' = now + 1
    /\ lastOp' = Op("tick", NoId, 0, 0, FALSE, {})
    /\ UNCHANGED << mounted, tasks, lastPassDay, tz, native, permission, scheduleFails, running, stored, lastDailyReset, reminders,
                    created, hasPermission, pendingNotifications, notificationCounter,
                    platform, timers, rearm, dailyResetInterval >>

Next ==
    \/ Launch
    \/ Close
    \/ AddReminder
    \/ ToggleReminder
    \/ DeleteReminder
    \/ MidnightTimer
    \/ FireWebTimer
    \/ RearmDaily
    \/ DeliverNative
    \/ Tick

Spec == Init /\ [][Next]_vars


\* ------------------------------------------------------------------
\* The notification service alone, driven through its public interface by
\* any caller (SettingsPage calls scheduleReminder directly, for one)
\* ------------------------------------------------------------------

\* the type of the reminder a caller holds under an id
SvcTypeOf(id) ==
    IF \E i \in 1..Len(IdSeq) : IdSeq[i] = id /\ i % 2 = 1 THEN "event" ELSE "daily"

SvcReminders ==
    { [ id |-> id, type |-> SvcTypeOf(id), datetime |-> d, completed |-> FALSE ] :
          id \in Ids, d \in SvcTimes }

SvcInit ==
    /\ now = 0
    /\ tz = 0
    /\ native \in BOOLEAN
    /\ permission \in {"granted", "denied"}
    /\ scheduleFails \in IF native THEN BOOLEAN ELSE {FALSE}
    /\ running = TRUE
    /\ mounted = FALSE
    /\ stored = << >>
    /\ lastDailyReset = {}
    /\ reminders = << >>
    /\ created = 0
    /\ hasPermission = FALSE
    /\ pendingNotifications = << >>
    /\ notificationCounter = 1
    /\ platform = {}
    /\ timers = {}
    /\ rearm = {}
    /\ dailyResetInterval = {}
    /\ tasks = << >>
    /\ lastOp = Op("init", NoId, 0, 0, FALSE, {})
    /\ lastPassDay = {}

\* notificationService.scheduleReminder(reminder)
SvcScheduleReminder ==
    /\ \E reminder \in SvcReminders, rnd \in RandomParts :
          /\ reminder.type = "event" => notificationCounter < MaxCounter
          /\ LET res == scheduleReminder(State, reminder, now, rnd)
             IN /\ Install(res.st)
                /\ lastOp' = OpOn("scheduleReminder", reminder, res)
    /\ UNCHANGED << mounted, tasks, lastPassDay, now, tz, native, permission, scheduleFails, running, created, rearm,
                    dailyResetInterval >>

\* notificationService.rescheduleDaily(reminder)
SvcRescheduleDaily ==
    /\ \E reminder \in SvcReminders :
          /\ LET res == rescheduleDaily(State, reminder, now, 0)
             IN /\ Install(res.st)
                /\ lastOp' = OpOn("rescheduleDaily", reminder, res)
    /\ UNCHANGED << mounted, tasks, lastPassDay, now, tz, native, permission, scheduleFails, running, created, rearm,
                    dailyResetInterval >>

\* notificationService.cancelReminder(reminderId)
SvcCancelReminder ==
    /\ \E id \in Ids :
          /\ Install(cancelReminder(State, id))
          /\ lastOp' = Op("cancelReminder", id, 0, 0, FALSE, {})
    /\ UNCHANGED << mounted, tasks, lastPassDay, now, tz, native, permission, scheduleFails, running, created, rearm,
                    dailyResetInterval >>

\* notificationService.cancelAll()
SvcCancelAll ==
    /\ Install(cancelAll(State))
    /\ lastOp' = Op("cancelAll", NoId, 0, 0, FALSE, {})
    /\ UNCHANGED << mounted, tasks, lastPassDay, now, tz, native, permission, scheduleFails, running, created, rearm,
                    dailyResetInterval >>

\* notificationService.requestPermission()
SvcRequestPermission ==
    /\ Install(requestPermission(State))
    /\ lastOp' = Op("requestPermission", NoId, 0, 0, FALSE, {})
    /\ UNCHANGED << mounted, tasks, lastPassDay, now, tz, native, permission, scheduleFails, running, created, rearm,
                    dailyResetInterval >>

\* the process ends and a new one starts: a fresh NotificationServiceImpl,
\* no timers; what the native scheduler holds stays
SvcRestart ==
    /\ hasPermission' = FALSE
    /\ pendingNotifications' = << >>
    /\ notificationCounter' = 1
    /\ timers' = {}
    /\ rearm' = {}
    /\ lastOp' = Op("restart", NoId, 0, 0, FALSE, {})
    /\ UNCHANGED << mounted, tasks, lastPassDay, now, tz, native, permission, scheduleFails, running, stored,
                    lastDailyReset, reminders, created, platform, dailyResetInterval >>

\* time passes, as far as the service is followed
SvcTick == now < SvcMaxTime /\ Tick

SvcNext ==
    \/ SvcScheduleReminder
    \/ SvcRescheduleDaily
    \/ SvcCancelReminder
    \/ SvcCancelAll
    \/ SvcRequestPermission
    \/ SvcRestart
    \/ FireWebTimer
    \/ RearmDaily
    \/ DeliverNative
    \/ SvcTick

SpecService == SvcInit /\ [][SvcNext]_vars

\* ------------------------------------------------------------------
\* The two id generators alone, applied to reminder ids of any content
\* ------------------------------------------------------------------

\* UTF-16 code units a reminder id is made of here: a control, "-", a
\* unit of the basic plane and the largest unit
HashChars == {2, 45, 3258, 65535}

RECURSIVE StringsOfLen(_)
StringsOfLen(n) ==
    IF n = 0 THEN { << >> }
    ELSE { Append(s, c) : s \in StringsOfLen(n - 1), c \in HashChars }

\* the reminder ids the generators are applied to
HashIds == UNION { StringsOfLen(n) : n \in 1..MaxIdLen }

HandlesInit == SvcInit /\ ~native /\ permission = "granted"

\* this.generateDailyNotificationId(reminder.id)
GenerateDailyNotificationId ==
    /\ \E reminderId \in HashIds :
          lastOp' = Op("generateDailyNotificationId", reminderId,
                       generateDailyNotificationId(reminderId), 0, FALSE, {})
    /\ UNCHANGED << mounted, tasks, lastPassDay, now, tz, native, permission, scheduleFails, running, stored,
                    lastDailyReset, reminders, created, hasPermission, pendingNotifications,
                    notificationCounter, platform, timers, rearm, dailyResetInterval >>

\* this.generateNotificationId()
GenerateNotificationId ==
    /\ notificationCounter < MaxCounter
    /\ \E rnd \in RandomParts :
          lastOp' = Op("generateNotificationId", NoId,
                       generateNotificationId(notificationCounter, rnd), 0, FALSE, {})
    /\ notificationCounter' = notificationCounter + 1
    /\ UNCHANGED << mounted, tasks, lastPassDay, now, tz, native, permission, scheduleFails, running, stored,
                    lastDailyReset, reminders, created, hasPermission, pendingNotifications,
                    platform, timers, rearm, dailyResetInterval >>

HandlesNext ==
    \/ GenerateDailyNotificationId
    \/ GenerateNotificationId

SpecHandles == HandlesInit /\ [][HandlesNext]_vars

\* ------------------------------------------------------------------
\* One process of the application with its handlers suspended where the
\* event loop can run something else: loadState at the permission prompt of
\* requestPermission, and on native every scheduleReminder between its cancel
\* step and the calls of its arm step (checkPermissions, schedule), which
\* complete in a later task.  The awaits on storage and the awaits of the web
\* path resolve as microtasks of the same task and suspend nothing.
\* cancelReminder is taken as one step.
\* ------------------------------------------------------------------

AsyncTimes == 1..AsyncMaxTime

\* what localStorage holds when the process starts
AsyncStores ==
    UNION { { list \in [1..n -> [ id : Ids, type : {"daily", "event"},
                                  datetime : AsyncTimes, completed : BOOLEAN ]] :
                \A i \in 1..n : list[i].id = IdSeq[i] } : n \in 1..MaxReminders }

\* an async call in flight: the reminders it still has to hand to the
\* scheduler (directly to scheduleReminder, or by type as the loops do), the
\* scheduleReminder call it is suspended in, and whether checkMidnight() follows
Task(name, saved, todo, direct, thenCheckMidnight) ==
    [ name |-> name, pc |-> "run", saved |-> saved, todo |-> todo, direct |-> direct,
      call |-> << >>, thenCheckMidnight |-> thenCheckMidnight ]

Remove(list, k) == [ i \in 1..(Len(list) - 1) |-> IF i < k THEN list[i] ELSE list[i + 1] ]

\* the task runs from where it is to its next suspension or to its end
RECURSIVE Run(_, _, _)
Run(st, task, t) ==
    IF task.todo = << >>
    THEN [ st |-> st, suspended |-> << >>, checkMidnight |-> task.thenCheckMidnight ]
    ELSE LET r == Head(task.todo)
             rest == [task EXCEPT !.todo = Tail(@)]
             reminder == IF ~task.direct /\ r.type = "daily" THEN updatedReminder(r, t)
                         ELSE r
             prepared == scheduleReminderPrepare(st, reminder, t, 0)
         IN IF prepared.returned
            THEN Run(prepared.st, rest, t)
            ELSE IF native
                 THEN [ st |-> prepared.st,
                        suspended |-> << [rest EXCEPT !.pc = "schedule",
                                                      !.call = << prepared.call >>] >>,
                        checkMidnight |-> FALSE ]
                 ELSE Run(scheduleReminderArm(prepared.st, prepared.call).st, rest, t)

\* setIsLoading(false) has not run yet: Index renders its loading screen
IsLoading == \E k \in 1..Len(tasks) : tasks[k].name = "loadState"

\* the process has started and the effect of useAppState has run: loadState()
\* up to its await of requestPermission, then checkMidnight()
AsyncInit ==
    /\ now = 0
    /\ tz = 0
    /\ native \in BOOLEAN
    /\ permission = "granted"
    /\ scheduleFails = FALSE
    /\ running = TRUE
    /\ mounted = TRUE
    /\ stored \in AsyncStores
    /\ lastDailyReset \in {{}, {UTCDate(0)}}
    /\ reminders = << >>
    /\ created = Len(stored)
    /\ hasPermission = FALSE
    /\ pendingNotifications = << >>
    /\ notificationCounter = 1
    /\ platform = {}
    /\ timers = {}
    /\ rearm = {}
    /\ dailyResetInterval = {NextMidnight(0)}
    /\ tasks = << [Task("loadState", stored, << >>, FALSE, FALSE) EXCEPT
                      !.pc = "requestPermission"] >>
    /\ lastOp = Op("init", NoId, 0, 0, FALSE, {})
    /\ lastPassDay = {}

\* requestPermission() resolves and loadState goes on
AsyncLoadState ==
    /\ \E k \in 1..Len(tasks) :
          /\ tasks[k].pc = "requestPermission"
          /\ LET loaded == loadStateStore(State, tasks[k].saved, now)
                 run == Run(loaded.st, Task("loadState", << >>, loaded.todo, FALSE, FALSE),
                            now)
             IN /\ Install(run.st)
                /\ tasks' = Remove(tasks, k) \o run.suspended
                /\ lastOp' = Op("loadState", NoId, DaysSincePass(now), 0,
                                NeedsReset(State, now), DroppedIds(tasks[k].saved, now))
    /\ lastPassDay' = {LocalDay(now)}
    /\ UNCHANGED << now, tz, native, permission, scheduleFails, running, mounted, created,
                    rearm, dailyResetInterval >>

\* the native calls of a suspended scheduleReminder complete and its caller goes on
AsyncArm ==
    /\ \E k \in 1..Len(tasks) :
          /\ tasks[k].pc = "schedule"
          /\ LET call == tasks[k].call[1]
                 res == scheduleReminderArm(State, call)
                 run == Run(res.st, [tasks[k] EXCEPT !.pc = "run", !.call = << >>], now)
             IN /\ Install(run.st)
                /\ tasks' = Remove(tasks, k) \o run.suspended
                /\ dailyResetInterval' = IF run.checkMidnight
                                         THEN dailyResetInterval \cup {NextMidnight(now)}
                                         ELSE dailyResetInterval
                /\ lastOp' = Op("arm", call.reminder.id, res.result, res.at, FALSE, {})
    /\ UNCHANGED << lastPassDay, now, tz, native, permission, scheduleFails, running, mounted,
                    created, rearm >>

\* the callback of checkMidnight's timer
AsyncMidnightTimer ==
    /\ Len(tasks) < MaxTasks
    /\ \E at \in dailyResetInterval :
          /\ at <= now
          /\ LET currentReminders == stored
                 reset == checkDailyResetStore(State, currentReminders, now)
                 run == Run(reset.st, Task("checkMidnight", << >>, reset.todo, FALSE, TRUE),
                            now)
             IN /\ Install(run.st)
                /\ tasks' = tasks \o run.suspended
                /\ dailyResetInterval' =
                       (dailyResetInterval \ {at})
                       \cup (IF run.checkMidnight THEN {NextMidnight(now)} ELSE {})
                /\ lastOp' = Op("checkMidnight", NoId, DaysSincePass(now), 0,
                                NeedsReset(State, now),
                                IF NeedsReset(State, now) THEN DroppedIds(stored, now)
                                ELSE {})
    /\ lastPassDay' = {LocalDay(now)}
    /\ UNCHANGED << now, tz, native, permission, scheduleFails, running, mounted, created,
                    rearm >>

\* toggleReminder(id), called by RemindersList once Index shows it
AsyncToggleReminder ==
    /\ mounted
    /\ ~IsLoading
    /\ Len(tasks) < MaxTasks
    /\ Cardinality(timers) < MaxTimers
    /\ \E i \in 1..Len(reminders) :
          LET reminder == reminders[i]
              updatedReminders == [reminders EXCEPT ![i].completed = ~@]
              st1 == [State EXCEPT !.reminders = updatedReminders,
                                   !.stored = updatedReminders]
              run == IF ~reminder.completed
                     THEN Run(cancelReminder(st1, reminder.id),
                              Task("toggleReminder", << >>, << >>, FALSE, FALSE), now)
                     ELSE Run(st1,
                              Task("toggleReminder", << >>,
                                   IF reminder.type = "daily"
                                   THEN << [reminder EXCEPT !.completed = FALSE] >>
                                   ELSE << >>, FALSE, FALSE), now)
          IN /\ Install(run.st)
             /\ tasks' = tasks \o run.suspended
             /\ lastOp' = Op("toggleReminder", reminder.id, 0, 0, FALSE, {})
    /\ UNCHANGED << lastPassDay, now, tz, native, permission, scheduleFails, running, mounted,
                    created, rearm, dailyResetInterval >>

\* setTimeout(() => this.scheduleReminder(newReminder), 1000)
AsyncRearmDaily ==
    /\ Len(tasks) < MaxTasks
    /\ \E newReminder \in rearm :
          LET run == Run(State, Task("rearm", << >>, << newReminder >>, TRUE, FALSE), now)
          IN /\ Install(run.st)
             /\ tasks' = tasks \o run.suspended
             /\ rearm' = rearm \ {newReminder}
             /\ lastOp' = Op("rearm", newReminder.id, 0, 0, FALSE, {})
    /\ UNCHANGED << lastPassDay, now, tz, native, permission, scheduleFails, running, mounted,
                    created, dailyResetInterval >>

\* notificationService.scheduleReminder(reminder), called through the interface
\* for a reminder of the list that is not completed
AsyncScheduleReminder ==
    /\ ~IsLoading
    /\ Len(tasks) < MaxTasks
    /\ \E i \in 1..Len(reminders) :
          /\ ~reminders[i].completed
          /\ reminders[i].type = "event" => notificationCounter < MaxCounter
          /\ LET run == Run(State, Task("scheduleReminder", << >>, << reminders[i] >>,
                                        TRUE, FALSE), now)
             IN /\ Install(run.st)
                /\ tasks' = tasks \o run.suspended
                /\ lastOp' = Op("scheduleReminder", reminders[i].id, 0, 0, FALSE, {})
    /\ UNCHANGED << lastPassDay, now, tz, native, permission, scheduleFails, running, mounted,
                    created, rearm, dailyResetInterval >>

\* the cleanup of the effect: clearTimeout(dailyResetInterval.current)
AsyncUnmount ==
    /\ mounted
    /\ mounted' = FALSE
    /\ dailyResetInterval' = {}
    /\ lastOp' = Op("unmount", NoId, 0, 0, FALSE, {})
    /\ UNCHANGED << lastPassDay, now, tz, native, permission, scheduleFails, running, stored,
                    lastDailyReset, reminders, created, hasPermission, pendingNotifications,
                    notificationCounter, platform, timers, rearm, tasks >>

\* the native calls of the suspended scheduleReminder calls complete before
\* the clock moves on; a permission prompt stays open as long as the user
\* likes.  After the cleanup the run is followed to the end of that instant.
AsyncTick ==
    /\ mounted
    /\ now < AsyncMaxTime
    /\ \A k \in 1..Len(tasks) : tasks[k].pc # "schedule"
    /\ Tick

AsyncNext ==
    \/ AsyncLoadState
    \/ AsyncArm
    \/ AsyncMidnightTimer
    \/ AsyncToggleReminder
    \/ AsyncRearmDaily
    \/ AsyncScheduleReminder
    \/ AsyncUnmount
    \/ FireWebTimer
    \/ DeliverNative
    \/ AsyncTick

SpecAsync == AsyncInit /\ [][AsyncNext]_vars

\* ------------------------------------------------------------------
\* The notification service called for reminders whose ids meet in their
\* handles
\* ------------------------------------------------------------------

\* ids of daily reminders: "Aa" and "BB", which have the same hash, and an id
\* whose hash is 100000
DailyIds == { << 65, 97 >>, << 66, 66 >>, << 3225, 25 >> }

\* ids of event reminders
EventIds == { << 97 >>, << 98 >> }

HandleIds == DailyIds \cup EventIds

HandleReminders ==
    { [ id |-> id, type |-> IF id \in DailyIds THEN "daily" ELSE "event",
        datetime |-> NextMidnight(0), completed |-> FALSE ] : id \in HandleIds }

\* notificationService.scheduleReminder(reminder)
IdsScheduleReminder ==
    /\ \E reminder \in HandleReminders, rnd \in AppRandomParts :
          /\ reminder.type = "event" => notificationCounter < MaxCounter
          /\ LET res == scheduleReminder(State, reminder, now, rnd)
             IN /\ Install(res.st)
                /\ lastOp' = OpOn("scheduleReminder", reminder, res)
    /\ UNCHANGED << mounted, tasks, lastPassDay, now, tz, native, permission, scheduleFails,
                    running, created, rearm, dailyResetInterval >>

\* notificationService.cancelReminder(reminderId)
IdsCancelReminder ==
    /\ \E id \in HandleIds :
          /\ Install(cancelReminder(State, id))
          /\ lastOp' = Op("cancelReminder", id, 0, 0, FALSE, {})
    /\ UNCHANGED << mounted, tasks, lastPassDay, now, tz, native, permission, scheduleFails,
                    running, created, rearm, dailyResetInterval >>

IdsNext ==
    \/ IdsScheduleReminder
    \/ IdsCancelReminder
    \/ SvcRestart

SpecIds == SvcInit /\ [][IdsNext]_vars

\* ------------------------------------------------------------------
\* What is observed of a run
\* ------------------------------------------------------------------

\* the live alerts held for a reminder: native platform alerts and web timers
LiveAlerts(id) ==
    { [ kind |-> "capacitor", handle |-> a.id, at |-> a.at ] :
          a \in { b \in platform : b.reminderId = id } }
    \cup
    { [ kind |-> "web", handle |-> x.timeoutId, at |-> x.at ] :
          x \in { y \in timers : y.id = id } }

Range(list) == { list[i] : i \in 1..Len(list) }

\* the instant a daily reminder is due next: today if still ahead, else tomorrow
NextOccurrence(datetime, t) ==
    IF LocalDay(t) * SlotsPerDay + TimeOfDay(datetime) > t
    THEN LocalDay(t) * SlotsPerDay + TimeOfDay(datetime)
    ELSE (LocalDay(t) + 1) * SlotsPerDay + TimeOfDay(datetime)

IsPass(op) == op.name \in {"loadState", "checkMidnight"}

\* ------------------------------------------------------------------
\* Claims
\* ------------------------------------------------------------------

\* C1: at every moment, whatever operations and restarts came before, each
\* reminder id has at most one live alert.
C1_AtMostOneLiveAlert == \A id \in Ids : Cardinality(LiveAlerts(id)) <= 1

\* C2: when scheduleReminder is called twice in succession for the same
\* reminder and both calls arm an alert, the only live alert of that reminder
\* afterwards is the one the second call armed.
C2_SecondCallReplacesFirst ==
    [][ (/\ lastOp.name = "scheduleReminder" /\ lastOp.result # 0
         /\ lastOp'.name = "scheduleReminder" /\ lastOp'.result # 0
         /\ lastOp'.id = lastOp.id) =>
          \A id \in Ids :
              id = lastOp'.id =>
                  { [ handle |-> a.handle, at |-> a.at ] : a \in LiveAlerts(id)' } =
                      { [ handle |-> lastOp'.result, at |-> lastOp'.at ] }
      ]_vars

\* C3: a notification delivered for an event reminder is always for a
\* reminder that is in the store and not completed.
C3_NoAlertForCompletedOrRemoved ==
    lastOp.name = "eventNotification" =>
        \E r \in Range(stored) : r.id = lastOp.id /\ ~r.completed

\* C4: cancelReminder(id) called right after a restart leaves no live
\* platform alert for that id.
C4_CancelAfterRestart ==
    [][ (lastOp.name = "restart" /\ lastOp'.name = "cancelReminder") =>
          \A a \in platform' : a.reminderId # lastOp'.id
      ]_vars

\* C5: a scheduleReminder call arms under the same handle as every alert
\* armed earlier for the same reminder, in this process or a previous one.
C5_HandleIsFunctionOfId ==
    [][ (lastOp'.name = "scheduleReminder" /\ native /\ lastOp'.result # 0) =>
          \A a \in platform : a.reminderId = lastOp'.id => a.id = lastOp'.result
      ]_vars

\* C6: once startup reconciliation has completed with permission granted,
\* every non-completed reminder of the store has a live alert, an event at
\* its datetime and a daily at its next occurrence.
C6_EveryActiveReminderArmed ==
    (lastOp.name = "loadState" /\ permission = "granted") =>
        \A r \in Range(stored) :
            ~r.completed =>
                \E a \in LiveAlerts(r.id) :
                    a.at = IF r.type = "event" THEN r.datetime
                           ELSE NextOccurrence(r.datetime, now)

\* C7: a startup reconciliation or a rollover that is not a no-op leaves no
\* event older than now in the store, in memory or persisted; it cancels
\* each event it drops, shrinks the list by exactly the number of expired
\* events and keeps every event whose datetime is now or later.
C7_ExpiredEventsPurged ==
    [][ (lastOp'.name = "loadState"
            \/ (lastOp'.name = "checkMidnight" /\ lastOp'.rolled)) =>
         LET expired == { i \in 1..Len(stored) :
                            stored[i].type = "event" /\ stored[i].datetime < now }
         IN /\ \A r \in Range(stored') : r.type = "event" => r.datetime >= now
            /\ \A r \in Range(reminders') : r.type = "event" => r.datetime >= now
            /\ { stored[i].id : i \in expired } \subseteq lastOp'.cancelled
            /\ Len(stored') = Len(stored) - Cardinality(expired)
            /\ Len(reminders') = Len(stored')
            /\ \A i \in 1..Len(stored) :
                   (stored[i].type = "event" /\ stored[i].datetime >= now) =>
                       stored[i] \in Range(stored')
      ]_vars

C7_Witness ==
    /\ IsPass(lastOp)
    /\ lastOp.cancelled # {}
    /\ \E r \in Range(stored) : r.type = "event"

\* C8: every pass of the midnight timer finds a marker different from
\* today's date and performs the rollover.
C8_MidnightAlwaysRolls == lastOp.name = "checkMidnight" => lastOp.rolled

\* C9: a rollover pass on the same local calendar day as the previous pass
\* is a no-op: marker, completed flags and datetimes are unchanged.
C9_SecondPassIsNoOp ==
    [][ (IsPass(lastOp') /\ lastPassDay = {LocalDay(now)}) =>
          /\ lastDailyReset' = lastDailyReset
          /\ ~lastOp'.rolled
          /\ \A r \in Range(stored) : \A q \in Range(stored') :
                 q.id = r.id => q = r
      ]_vars

C11_DailyDatetimeNotInPast ==
    (IsPass(lastOp) /\ lastOp.rolled) =>
        \A r \in Range(stored) :
            r.type = "daily" =>
                /\ r.datetime >= now
                /\ LocalDay(r.datetime) \in {LocalDay(now), LocalDay(now) + 1}

\* C12: scheduleReminder for an event whose datetime is now or earlier
\* returns 0 and arms neither a platform alert nor a timer.
C12_PastEventNotScheduled ==
    [][ (/\ lastOp'.name = "scheduleReminder"
         /\ SvcTypeOf(lastOp'.id) = "event"
         /\ lastOp'.datetime <= now) =>
          /\ lastOp'.result = 0
          /\ platform' = platform
          /\ timers' = timers
          /\ pendingNotifications' = pendingNotifications
      ]_vars

C12_Witness ==
    /\ lastOp.name = "scheduleReminder"
    /\ SvcTypeOf(lastOp.id) = "event"
    /\ lastOp.datetime <= now
    /\ lastOp.result = 0
    /\ LiveAlerts(lastOp.id) # {}

\* C13: the alert scheduleReminder arms for a daily reminder is due strictly
\* after now, whatever datetime the reminder carries.
C13_DailyFiresAfterNow ==
    (/\ lastOp.name = "scheduleReminder"
     /\ SvcTypeOf(lastOp.id) = "daily"
     /\ lastOp.result # 0) =>
        lastOp.at > now

\* C14: rescheduleDaily arms a daily reminder at the next occurrence of its
\* time of day (today when still ahead of now, tomorrow otherwise); for a
\* reminder that is not daily it arms nothing and changes nothing.
C14_RescheduleDailyNextOccurrence ==
    [][ lastOp'.name = "rescheduleDaily" =>
          IF SvcTypeOf(lastOp'.id) = "daily"
          THEN lastOp'.result # 0 =>
                  /\ lastOp'.at = NextOccurrence(lastOp'.datetime, now)
                  /\ TimeOfDay(lastOp'.at) = TimeOfDay(lastOp'.datetime)
                  /\ \A id \in Ids :
                        id = lastOp'.id =>
                            { a.at : a \in LiveAlerts(id)' } = { lastOp'.at }
          ELSE /\ lastOp'.result = 0
               /\ UNCHANGED << platform, timers, pendingNotifications,
                               notificationCounter, hasPermission, rearm, stored,
                               reminders >>
      ]_vars

C14_Witness ==
    /\ lastOp.name = "rescheduleDaily"
    /\ SvcTypeOf(lastOp.id) = "daily"
    /\ lastOp.result # 0
    /\ now > 0
    /\ LocalDay(lastOp.datetime) # LocalDay(lastOp.at)

\* C15: on the native backend a scheduleReminder call whose platform
\* schedule call fails arms no web timer for the reminder.
C15_NativeFailureNotMasked ==
    [][ (lastOp'.name = "scheduleReminder" /\ native /\ scheduleFails) =>
          \A x \in timers' : x.id # lastOp'.id
      ]_vars

\* C16: with permission denied scheduleReminder returns 0 and arms neither a
\* platform alert nor a timer, on either backend.
C16_DeniedNotScheduled ==
    [][ (lastOp'.name = "scheduleReminder" /\ permission = "denied") =>
          /\ lastOp'.result = 0
          /\ platform' \subseteq platform
          /\ timers' \subseteq timers
      ]_vars

\* C17: when the native scheduler delivers a daily reminder's alert, it
\* still holds the alert for the reminder's next day.
C17_NativeDailyRepeats ==
    [][ (lastOp'.name = "dailyNotification" /\ platform' # platform) =>
          \E a \in platform' : a.reminderId = lastOp'.id /\ a.at > now
      ]_vars

\* C18: no step removes a daily reminder from the store, and deleteReminder
\* on a daily reminder changes neither the store nor the scheduler.
C18_DailyNeverRemoved ==
    [][ /\ \A r \in Range(stored) :
               r.type = "daily" =>
                   \E q \in Range(stored') : q.id = r.id /\ q.type = "daily"
        /\ (/\ lastOp'.name = "deleteReminder"
            /\ \E r \in Range(stored) : r.id = lastOp'.id /\ r.type = "daily") =>
               UNCHANGED << stored, reminders, platform, timers,
                            pendingNotifications, notificationCounter, rearm >>
      ]_vars

C18_Witness ==
    /\ lastOp.name = "deleteReminder"
    /\ \E r \in Range(stored) : r.id = lastOp.id /\ r.type = "daily"
    /\ lastPassDay # {}
    /\ now > 0

\* C19: when cancelAll returns, no platform alert, no timer, no pending
\* re-arm and no entry of pendingNotifications is left.
C19_CancelAllLeavesNothing ==
    [][ lastOp'.name = "cancelAll" =>
          /\ platform' = {}
          /\ timers' = {}
          /\ rearm' = {}
          /\ pendingNotifications' = << >>
      ]_vars

\* C20: cancelReminder(id) for an id with no live alert leaves
\* the store, pendingNotifications and all live alerts unchanged.
C20_CancelMissingChangesNothing ==
    [][ (/\ lastOp'.name = "cancelReminder"
         /\ \A id \in Ids : id = lastOp'.id => LiveAlerts(id) = {}) =>
          UNCHANGED << stored, reminders, pendingNotifications, platform, timers >>
      ]_vars

\* C21: the handle generated for a daily reminder and a handle generated for
\* an event reminder are never equal, whatever the reminder id and the value
\* of the event counter: the daily handles lie below 100000, the event
\* handles above.
C21_HandleRangesDisjoint ==
    [][ (/\ lastOp.name = "generateDailyNotificationId"
         /\ lastOp'.name = "generateNotificationId") =>
          /\ lastOp.result # lastOp'.result
          /\ lastOp.result < 100000
          /\ lastOp'.result >= 100000
      ]_vars

\* a daily handle of a negative hash has been generated, then an event handle
C21_Witness ==
    /\ lastOp.name = "generateDailyNotificationId"
    /\ HashHalves(lastOp.id, 1, << 0, 0 >>)[1] >= 32768
    /\ notificationCounter > 1

\* C22: the rollover pass of the midnight timer never starts or runs while
\* loadState is still in flight (suspended at one of its awaits).
C22_StartupAndRolloverSerialized ==
    IsLoading =>
        /\ lastOp.name # "checkMidnight"
        /\ \A k \in 1..Len(tasks) : tasks[k].name # "checkMidnight"

\* C23: a reminder that toggleReminder has marked completed has no live alert
\* for as long as it stays completed, whatever callbacks of the scheduler run
\* in between.
C23_CompletedHasNoAlert ==
    running =>
        \A r \in Range(stored) : r.completed => LiveAlerts(r.id) = {}

\* C24: whenever no operation is in progress, the reminder list the hook
\* holds in memory equals the persisted list (no mutation was overwritten by
\* one that worked from an older snapshot).
C24_MemoryEqualsPersisted ==
    (mounted /\ tasks = << >>) => reminders = stored

C26_OneMidnightTimerWhileMounted ==
    /\ Cardinality(dailyResetInterval) <= 1
    /\ ~mounted => dailyResetInterval = {}

\* C27: once the scheduleReminder calls in flight have all returned, each
\* reminder has at most one live alert, and it is the one recorded in
\* pendingNotifications, also when two calls for the same reminder overlapped.
C27_OverlappingCallsLeaveOneAlert ==
    tasks = << >> =>
        \A id \in Ids :
            /\ Cardinality(LiveAlerts(id)) <= 1
            /\ \A a \in LiveAlerts(id) :
                  /\ id \in DOMAIN pendingNotifications
                  /\ pendingNotifications[id].kind = a.kind
                  /\ a.kind = "capacitor" => pendingNotifications[id].notificationId = a.handle
                  /\ a.kind = "web" => pendingNotifications[id].timeoutId = a.handle

\* C28: with permission granted, after toggleReminder has returned every
\* reminder of the store that is not completed and is daily or an event still
\* ahead has a live alert; so a reminder that was completed and un-completed
\* again is armed, an event as well as a daily.
C28_ActiveReminderArmedAfterToggle ==
    (running /\ permission = "granted" /\ lastOp.name = "toggleReminder") =>
        \A r \in Range(stored) :
            (~r.completed /\ (r.type = "daily" \/ r.datetime > now)) =>
                LiveAlerts(r.id) # {}

\* C29: a scheduleReminder or cancelReminder call for one reminder leaves the
\* live alerts of every other reminder as they were, also for ids whose
\* hashes agree and after a restart of the process.
C29_OtherAlertsUntouched ==
    [][ lastOp'.name \in {"scheduleReminder", "cancelReminder"} =>
          \A id \in HandleIds \ {lastOp'.id} :
              LiveAlerts(id) \subseteq LiveAlerts(id)'
      ]_vars

\* C30: scheduleReminder returns 0 exactly when the call armed no alert and
\* no timer.
C30_ZeroIffNothingArmed ==
    [][ lastOp'.name = "scheduleReminder" =>
          (lastOp'.result = 0 <=> ~lastOp'.armed)
      ]_vars

====
